---- MODULE Spec2Model ----
(***************************************************************************)
(* A model of falcon_marshmallow.middleware: the request-body cache        *)
(* (get_stashed_content), the JSONEnforcer and EmptyRequestDropper guards, *)
(* the schema lookup of the Marshmallow middleware and its process_resource*)
(* / process_response stages, for one request at a time.                   *)
(***************************************************************************)
EXTENDS Integers, Sequences, FiniteSets, TLC

VARIABLES
    pc,             \* the stage the request is at
    middleware,     \* the middleware components the application installed
    enforcer,       \* JSONEnforcer instance: [methods]
    self,           \* Marshmallow instance: the fields set by __init__
    MARSHMALLOW_2,  \* the module constant of middleware.py line 38
    req,            \* [method, content_type, content_length, client_accepts_json]
    sent,           \* the body bytes the transport holds for this request
    resource,       \* the resource object: attribute name -> value
    stream,         \* the bytes req.bounded_stream has not handed out yet
    context,        \* req.context: key -> value, Absent when the key is not set
    resp_body,      \* resp.body
    raised,         \* the exception the last stage call raised, NoExc if none
    stage,          \* the last stage that ran
    prev,           \* context, resp.body and read count before that stage ran
    reads,          \* number of req.bounded_stream.read() calls so far
    calls,          \* number of get_stashed_content calls so far
    returned,       \* the sequence of values get_stashed_content returned
    lookups,        \* number of _get_schema calls so far
    loads,          \* number of sch.load calls so far
    decoded,        \* the sequence of bodies handed to json_module.loads
    req_succeeded,  \* whether the responder succeeded, None before it ran
    arg             \* arguments and result of a _get_schema call made on its own

\* what is fixed when the request arrives
inputs == <<middleware, enforcer, self, MARSHMALLOW_2, req, sent, resource>>

vars == <<pc, inputs, stream, context, resp_body, raised, stage, prev, reads,
          calls, returned, lookups, loads, decoded, req_succeeded, arg>>

-----------------------------------------------------------------------------
(* Bounds of the model.                                                    *)

\* longest request body, in bytes, of the body-cache specification
MaxLen == 3
\* most get_stashed_content calls made on one request by the body-cache
\* specification
MaxCalls == 3

-----------------------------------------------------------------------------
(* Python values.  Every value is a record tagged by k.                    *)

\* a dict key that is not set (not a Python value)
Absent == [k |-> "absent"]
None == [k |-> "None"]
PyBytes(b) == [k |-> "bytes", v |-> b]
PyInt(n) == [k |-> "int", v |-> n]
PyStr(s) == [k |-> "str", v |-> s]
PyList(items) == [k |-> "list", v |-> items]
\* a dict as the sequence of its <<key, value>> items, keys being strings
PyDict(items) == [k |-> "dict", v |-> items]
PySet == [k |-> "set"]
\* a list that contains itself
PyCircular == [k |-> "circular"]
\* an exception object: its class and its message (a value for ValidationError)
PyExc(type, detail) == [k |-> "exc", type |-> type, detail |-> detail]
NoExc == [k |-> "exc", type |-> "none", detail |-> None]

\* Python truthiness of the values the middleware tests with `not x`
Falsy(x) ==
    \/ x = None
    \/ x.k \in {"bytes", "list", "dict"} /\ x.v = <<>>
    \/ x.k = "str" /\ x.v = ""
    \/ x.k = "int" /\ x.v = 0

-----------------------------------------------------------------------------
(* The request body as bytes: a sequence over a small byte alphabet.       *)
(* "xFF" stands for the byte 0xFF, which no UTF-8 text contains.           *)

ByteAlphabet == {"[", "]", "1", "xFF"}

RECURSIVE SeqsUpTo(_, _)
SeqsUpTo(S, n) ==
    IF n = 0 THEN {<<>>}
    ELSE LET shorter == SeqsUpTo(S, n - 1)
         IN  shorter \cup {Append(s, x) : s \in {t \in shorter : Len(t) = n - 1}, x \in S}

AllBodies == SeqsUpTo(ByteAlphabet, MaxLen)

-----------------------------------------------------------------------------
(* get_stashed_content, middleware.py lines 41-58.                         *)

CONTENT_KEY == "content"

\* req.bounded_stream.read(): hands out everything left and leaves the
\* stream at end-of-stream (it is not seekable)
StreamRead(s) == [data |-> PyBytes(s), stream |-> <<>>]

\* dict.get(key): None when the key is not set
DictGet(ctx, key) == IF ctx[key] = Absent THEN None ELSE ctx[key]

\* lines 56-58: the read is stored under CONTENT_KEY and returned
StashAndReturn(ctx, r) ==
    [context |-> [ctx EXCEPT ![CONTENT_KEY] = r.data],
     stream |-> r.stream, nreads |-> 1, value |-> r.data]

\* a mutant: the cache test written as a truthiness test
get_stashed_content_falsy(ctx, s) ==
    IF Falsy(DictGet(ctx, CONTENT_KEY))
    THEN StashAndReturn(ctx, StreamRead(s))
    ELSE [context |-> ctx, stream |-> s, nreads |-> 0, value |-> ctx[CONTENT_KEY]]

\* a mutant: every call reads the stream
get_stashed_content_uncached(ctx, s) == StashAndReturn(ctx, StreamRead(s))

\* the effect of get_stashed_content(req) on (req.context, stream): the new
\* context and stream, the number of transport reads made and the value returned
get_stashed_content(ctx, s) ==
    IF DictGet(ctx, CONTENT_KEY) = None
    THEN StashAndReturn(ctx, StreamRead(s))
    ELSE [context |-> ctx, stream |-> s, nreads |-> 0, value |-> ctx[CONTENT_KEY]]

-----------------------------------------------------------------------------
(* The json module (simplejson by default): loads and dumps, as the        *)
(* middleware calls them at lines 375, 386, 395, 399, 408, 467, 477, 486   *)
(* and 493.                                                                *)

\* the value of a run of n digits "1"
RECURSIVE Ones(_)
Ones(n) == IF n = 0 THEN 0 ELSE 10 * Ones(n - 1) + 1

\* index of the first byte at or after i that is not the digit "1"
RECURSIVE DigitsEnd(_, _)
DigitsEnd(s, i) ==
    IF i <= Len(s) /\ s[i] = "1" THEN DigitsEnd(s, i + 1) ELSE i

\* the JSON scanner on text s from index i: [ok, val, next].  The grammar
\* over the alphabet is: value ::= "1"+ | "[" "]" | "[" value "]"
RECURSIVE ParseValue(_, _)
ParseValue(s, i) ==
    IF i > Len(s) THEN [ok |-> FALSE, val |-> None, next |-> i]
    ELSE IF s[i] = "1"
    THEN LET j == DigitsEnd(s, i)
         IN  [ok |-> TRUE, val |-> PyInt(Ones(j - i)), next |-> j]
    ELSE IF s[i] = "["
    THEN IF i + 1 <= Len(s) /\ s[i + 1] = "]"
         THEN [ok |-> TRUE, val |-> PyList(<<>>), next |-> i + 2]
         ELSE LET inner == ParseValue(s, i + 1)
              IN  IF inner.ok /\ inner.next <= Len(s) /\ s[inner.next] = "]"
                  THEN [ok |-> TRUE, val |-> PyList(<<inner.val>>),
                        next |-> inner.next + 1]
                  ELSE [ok |-> FALSE, val |-> None, next |-> i]
    ELSE [ok |-> FALSE, val |-> None, next |-> i]

\* bytes.decode("utf-8") fails on any byte that is not UTF-8
ValidUTF8(b) == \A i \in 1..Len(b) : b[i] # "xFF"

\* json_module.loads(body) for a bytes body: the exception raised (NoExc if
\* none) and the value returned.  The bytes are decoded before they are scanned.
Scanned(text, r) ==
    IF r.ok /\ r.next = Len(text) + 1
    THEN [exc |-> NoExc, value |-> r.val]
    ELSE [exc |-> PyExc("JSONDecodeError", None), value |-> None]

JsonLoads(body) ==
    IF ~ValidUTF8(body.v)
    THEN [exc |-> PyExc("UnicodeDecodeError", None), value |-> None]
    ELSE Scanned(body.v, ParseValue(body.v, 1))

DigitChar(d) == <<"0", "1", "2", "3", "4", "5", "6", "7", "8", "9">>[d + 1]

RECURSIVE IntToStr(_)
IntToStr(n) ==
    IF n < 10 THEN DigitChar(n) ELSE IntToStr(n \div 10) \o DigitChar(n % 10)

\* the JSON text of a value: [ok, text, err]; ok is FALSE where the encoder
\* raises: TypeError for a set or an exception object, ValueError ("Circular
\* reference detected") for a container that contains itself, met at the
\* top or nested in a value, whichever the encoder reaches first
RECURSIVE Encode(_)
RECURSIVE EncodeItems(_, _)
EncodeItems(items, isDict) ==
    IF items = <<>> THEN [ok |-> TRUE, text |-> "", err |-> ""]
    ELSE LET first == IF isDict THEN Encode(Head(items)[2]) ELSE Encode(Head(items))
             label == IF isDict THEN "\"" \o Head(items)[1] \o "\": " ELSE ""
             rest  == EncodeItems(Tail(items), isDict)
         IN  IF ~first.ok THEN first
             ELSE IF ~rest.ok THEN rest
             ELSE [ok |-> TRUE, err |-> "",
                   text |-> label \o first.text \o
                            (IF Tail(items) = <<>> THEN "" ELSE ", " \o rest.text)]
Encode(x) ==
    CASE x.k = "None" -> [ok |-> TRUE, text |-> "null", err |-> ""]
      [] x.k = "int"  -> [ok |-> TRUE, text |-> IntToStr(x.v), err |-> ""]
      [] x.k = "str"  -> [ok |-> TRUE, text |-> "\"" \o x.v \o "\"", err |-> ""]
      [] x.k = "list" ->
            LET r == EncodeItems(x.v, FALSE)
            IN  [ok |-> r.ok, text |-> "[" \o r.text \o "]", err |-> r.err]
      [] x.k = "dict" ->
            LET r == EncodeItems(x.v, TRUE)
            IN  [ok |-> r.ok, text |-> "{" \o r.text \o "}", err |-> r.err]
      [] x.k = "circular" -> [ok |-> FALSE, text |-> "", err |-> "ValueError"]
      [] OTHER -> [ok |-> FALSE, text |-> "", err |-> "TypeError"]

\* json_module.dumps(x): the exception raised (NoExc if none) and the text
Encoded(r) ==
    IF r.ok THEN [exc |-> NoExc, value |-> PyStr(r.text)]
    ELSE IF r.err = "ValueError"
    THEN [exc |-> PyExc("ValueError", PyStr("Circular reference detected")),
          value |-> None]
    ELSE [exc |-> PyExc("TypeError", PyStr("Object is not JSON serializable")),
          value |-> None]

JsonDumps(x) == Encoded(Encode(x))

-----------------------------------------------------------------------------
(* Names: an HTTP method or an attribute name is the sequence of its       *)
(* characters, so that str.lower and the "%s_%s_schema" formats act on it. *)

UpperCase == <<"A", "B", "C", "D", "E", "F", "G", "H", "I", "J", "K", "L", "M",
               "N", "O", "P", "Q", "R", "S", "T", "U", "V", "W", "X", "Y", "Z">>
LowerCase == <<"a", "b", "c", "d", "e", "f", "g", "h", "i", "j", "k", "l", "m",
               "n", "o", "p", "q", "r", "s", "t", "u", "v", "w", "x", "y", "z">>

LowerChar(c) ==
    IF \E i \in 1..Len(UpperCase) : UpperCase[i] = c
    THEN LowerCase[CHOOSE i \in 1..Len(UpperCase) : UpperCase[i] = c]
    ELSE c

\* str.lower()
Lower(name) == [i \in 1..Len(name) |-> LowerChar(name[i])]

GET == <<"G", "E", "T">>
POST == <<"P", "O", "S", "T">>
PUT == <<"P", "U", "T">>
PATCH == <<"P", "A", "T", "C", "H">>
DELETE == <<"D", "E", "L", "E", "T", "E">>

REQUEST == <<"r", "e", "q", "u", "e", "s", "t">>
RESPONSE == <<"r", "e", "s", "p", "o", "n", "s", "e">>
SCHEMA == <<"s", "c", "h", "e", "m", "a">>
Underscore == <<"_">>

\* getattr(obj, name, default)
GetAttr(obj, name, default) == IF name \in DOMAIN obj THEN obj[name] ELSE default

-----------------------------------------------------------------------------
(* Marshmallow._get_specific_schema and Marshmallow._get_schema,           *)
(* middleware.py lines 209-286.                                            *)

\* `a if a is not None else b`
FirstNotNone(a, b) == IF a # None THEN a ELSE b

\* a mutant: the method name is not lower-cased
get_specific_schema_nolower(res, method, msg_type) ==
    FirstNotNone(
        GetAttr(res, method \o Underscore \o msg_type \o Underscore \o SCHEMA, None),
        GetAttr(res, method \o Underscore \o SCHEMA, None))

get_specific_schema(res, method, msg_type) ==
    FirstNotNone(
        GetAttr(res, Lower(method) \o Underscore \o msg_type \o Underscore \o SCHEMA, None),
        GetAttr(res, Lower(method) \o Underscore \o SCHEMA, None))

get_schema(res, method, msg_type) ==
    FirstNotNone(get_specific_schema(res, method, msg_type),
                 GetAttr(res, SCHEMA, None))

-----------------------------------------------------------------------------
(* Header values.  A header string is the sequence of its lexical tokens   *)
(* (words and the separators "/", ";", "=", ","), wrapped as PyText so     *)
(* that it can be told from None.  No word of the vocabulary overlaps      *)
(* "application" or "json", so `"application/json" in s` is the test that  *)
(* the three tokens occur next to each other.                              *)

PyText(tokens) == [k |-> "text", v |-> tokens]

JSON_CONTENT_TYPE == PyText(<<"application", "/", "json">>)
JSON_CONTENT_REQUIRED_METHODS == <<POST, PUT, PATCH>>

\* x in <tuple>
InTuple(x, tuple) == \E i \in 1..Len(tuple) : tuple[i] = x

\* needle in haystack, for strings
Contains(haystack, needle) ==
    \E i \in 0..(Len(haystack) - Len(needle)) :
        \A j \in 1..Len(needle) : haystack[i + j] = needle[j]

\* s.split(sep): the parts of s between the separators
RECURSIVE Split(_, _)
Split(s, sep) ==
    IF \A i \in 1..Len(s) : s[i] # sep THEN <<s>>
    ELSE LET i == CHOOSE i \in 1..Len(s) :
                      s[i] = sep /\ \A j \in 1..(i - 1) : s[j] # sep
         IN  <<SubSeq(s, 1, i - 1)>> \o Split(SubSeq(s, i + 1, Len(s)), sep)

-----------------------------------------------------------------------------
(* falcon.vendor.mimeparse, as _content_is_expected_type calls it at line  *)
(* 311: quality(mime_type, ranges).                                        *)

\* the parameters of a header: name -> value, from the "name=value" parts
\* after the first ";" (a later part overrides an earlier one of that name)
HeaderParams(parts) ==
    LET named == {i \in 2..Len(parts) : Len(parts[i]) >= 2 /\ parts[i][2] = "="}
        names == {parts[i][1] : i \in named}
        last(n) == CHOOSE i \in named :
                       parts[i][1] = n /\ \A j \in named : parts[j][1] = n => j <= i
    IN  [n \in names |-> SubSeq(parts[last(n)], 3, Len(parts[last(n)]))]

NoMimeType == [ok |-> FALSE, type |-> <<>>, subtype |-> <<>>, params |-> <<>>]

MimeTypeOf(typeParts, params) ==
    IF Len(typeParts) # 2 THEN NoMimeType
    ELSE [ok |-> TRUE, type |-> typeParts[1], subtype |-> typeParts[2],
          params |-> params]

MimeTypeOfParts(parts) ==
    MimeTypeOf(Split(IF parts[1] = <<"*">> THEN <<"*", "/", "*">> ELSE parts[1], "/"),
               HeaderParams(parts))

\* parse_mime_type: [ok, type, subtype, params]; ok is FALSE where it raises
\* MimeTypeParseException (a ValueError)
parse_mime_type(mime) == MimeTypeOfParts(Split(mime, ";"))

WithQuality(m) ==
    [ok |-> m.ok, type |-> m.type, subtype |-> m.subtype, params |-> m.params,
     q |-> IF m.ok /\ "q" \in DOMAIN m.params /\ m.params["q"] = <<"0">>
           THEN 0 ELSE 1]

\* parse_media_range: the q parameter is kept when it is a number in [0, 1]
\* and set to 1 otherwise; q is 0 or 1 here (the vocabulary has no fraction)
parse_media_range(range) == WithQuality(parse_mime_type(range))

Matches(r, t) ==
    /\ r.type = t.type \/ r.type = <<"*">> \/ t.type = <<"*">>
    /\ r.subtype = t.subtype \/ r.subtype = <<"*">> \/ t.subtype = <<"*">>

Fitness(r, t) ==
    (IF r.type = t.type THEN 100 ELSE 0)
    + (IF r.subtype = t.subtype THEN 10 ELSE 0)
    + Cardinality({n \in DOMAIN t.params :
                      n # "q" /\ n \in DOMAIN r.params /\ t.params[n] = r.params[n]})
    + t.q

\* the first range of the best fitness among the ranges `fits`
BestFit(parsed, target, fits) ==
    CHOOSE i \in fits :
        \A j \in fits :
            \/ Fitness(parsed[j], target) < Fitness(parsed[i], target)
            \/ Fitness(parsed[j], target) = Fitness(parsed[i], target) /\ i <= j

QualityOfBest(parsed, fits, best) ==
    IF fits = {} THEN [ok |-> TRUE, q |-> 0] ELSE [ok |-> TRUE, q |-> parsed[best].q]

\* quality_parsed: the q of the best-fitting range, 0 when no range matches
quality_parsed(target, parsed) ==
    IF ~target.ok \/ \E i \in 1..Len(parsed) : ~parsed[i].ok
    THEN [ok |-> FALSE, q |-> 0]
    ELSE QualityOfBest(parsed,
                       {i \in 1..Len(parsed) : Matches(parsed[i], target)},
                       BestFit(parsed, target,
                               {i \in 1..Len(parsed) : Matches(parsed[i], target)}))

ParseRanges(ranges) == [i \in 1..Len(ranges) |-> parse_media_range(ranges[i])]

\* quality(mime_type, ranges): [ok, q]; ok is FALSE where parsing raises
quality(mime_type, ranges) ==
    quality_parsed(parse_media_range(mime_type), ParseRanges(Split(ranges, ",")))

-----------------------------------------------------------------------------
(* Marshmallow._content_is_expected_type, middleware.py lines 288-315.     *)

NonZero(r) == r.ok /\ r.q # 0

\* a mutant: no content type is not taken to be the expected one
content_is_expected_type_strict(expected, content_type) ==
    IF content_type = expected THEN TRUE
    ELSE IF content_type = None THEN FALSE
    ELSE NonZero(quality(content_type.v, expected.v))

content_is_expected_type(expected, content_type) ==
    IF content_type = expected \/ content_type = None THEN TRUE
    ELSE NonZero(quality(content_type.v, expected.v))

-----------------------------------------------------------------------------
(* Exceptions the stages raise: falcon's HTTP errors carry a description.  *)

HTTPError(type, description) == PyExc(type, description)

\* the HTTP status of a raised falcon error, 0 for any other exception
Status(exc) ==
    CASE exc.type = "HTTPBadRequest" -> 400
      [] exc.type = "HTTPNotAcceptable" -> 406
      [] exc.type = "HTTPUnsupportedMediaType" -> 415
      [] exc.type = "HTTPUnprocessableEntity" -> 422
      [] exc.type = "HTTPInternalServerError" -> 500
      [] OTHER -> 0

-----------------------------------------------------------------------------
(* JSONEnforcer.process_request, middleware.py lines 75-108: the exception *)
(* it raises, NoExc when it returns.                                       *)

\* a mutant: the Accept header is not checked
JSONEnforcer_process_request_noaccept(inst, r) ==
    IF /\ InTuple(r.method, JSON_CONTENT_REQUIRED_METHODS)
       /\ \/ r.content_type = None
          \/ ~Contains(r.content_type.v, JSON_CONTENT_TYPE.v)
    THEN HTTPError("HTTPUnsupportedMediaType", PyStr("requests must have application/json"))
    ELSE NoExc

\* a mutant: the content type is checked before the Accept header
JSONEnforcer_process_request_swapped(inst, r) ==
    IF /\ InTuple(r.method, JSON_CONTENT_REQUIRED_METHODS)
       /\ \/ r.content_type = None
          \/ ~Contains(r.content_type.v, JSON_CONTENT_TYPE.v)
    THEN HTTPError("HTTPUnsupportedMediaType", PyStr("requests must have application/json"))
    ELSE IF ~r.client_accepts_json
    THEN HTTPError("HTTPNotAcceptable", PyStr("This server only supports responses encoded as JSON."))
    ELSE NoExc

JSONEnforcer_process_request(inst, r) ==
    IF ~r.client_accepts_json
    THEN HTTPError("HTTPNotAcceptable", PyStr("This server only supports responses encoded as JSON."))
    ELSE IF /\ InTuple(r.method, JSON_CONTENT_REQUIRED_METHODS)
            /\ \/ r.content_type = None
               \/ ~Contains(r.content_type.v, JSON_CONTENT_TYPE.v)
    THEN HTTPError("HTTPUnsupportedMediaType", PyStr("requests must have application/json"))
    ELSE NoExc

-----------------------------------------------------------------------------
(* EmptyRequestDropper.process_request, middleware.py lines 114-139: the   *)
(* new context and stream, the transport reads made, the exception raised. *)

\* req.content_length in (None, 0)
NoContentLength(r) == r.content_length = None \/ r.content_length = PyInt(0)

EmptyBody ==
    HTTPError("HTTPBadRequest",
              PyStr("Empty response body. A valid JSON document is required."))

\* lines 131-139 with the test of line 134 given: the cached content is
\* checked after the call
Dropped(got, empty) ==
    [context |-> got.context, stream |-> got.stream, nreads |-> got.nreads,
     ncalls |-> 1, values |-> <<got.value>>,
     exc |-> IF empty THEN EmptyBody ELSE NoExc]

CheckContent(got) == Dropped(got, Falsy(got.value))

\* a mutant: the guard only fails when nothing at all was returned
CheckContentNone(got) == Dropped(got, got.value = None)

NotDropped(ctx, s) ==
    [context |-> ctx, stream |-> s, nreads |-> 0, ncalls |-> 0,
     values |-> <<>>, exc |-> NoExc]

\* a mutant: the guard only fails when nothing at all was returned
EmptyRequestDropper_process_request_none(r, ctx, s) ==
    IF NoContentLength(r) THEN NotDropped(ctx, s)
    ELSE CheckContentNone(get_stashed_content(ctx, s))

EmptyRequestDropper_process_request(r, ctx, s) ==
    IF NoContentLength(r) THEN NotDropped(ctx, s)
    ELSE CheckContent(get_stashed_content(ctx, s))

-----------------------------------------------------------------------------
(* Schemas.  A marshmallow schema is supplied by the application; the      *)
(* middleware only tests isinstance(sch, Schema) and calls load and dumps. *)
(* A schema object is [k |-> "schema", strict, load, dump], where load and *)
(* dump say how the object behaves: "ok", "invalid" (it reports validation *)
(* errors) or "raises" (it raises another exception).  SchemaClass is a    *)
(* Schema subclass that was not instantiated.                              *)

SchemaObject(strict, load, dump) ==
    [k |-> "schema", strict |-> strict, load |-> load, dump |-> dump]
SchemaClass == [k |-> "class"]

\* isinstance(sch, Schema)
IsSchemaInstance(sch) == sch.k = "schema"

\* the error detail a schema reports, field -> messages
ValidationMessages ==
    PyDict(<< <<"int", PyList(<<PyStr("Not a valid integer.")>>)>> >>)
ValidationError == PyExc("ValidationError", ValidationMessages)
OtherError == PyExc("ValueError", PyStr("boom"))

\* what a valid load returns: the schema maps the parsed document to its
\* internal form, here by filing it under the field "bar"
Loaded(parsed) == PyDict(<< <<"bar", parsed>> >>)

\* sch.load(parsed): [exc, data, errors].  marshmallow 2 returns
\* (data, errors) unless the schema is strict, and then raises
\* ValidationError as marshmallow 3 always does.
SchemaLoad(sch, parsed, mm2) ==
    CASE sch.load = "ok" ->
            [exc |-> NoExc, data |-> Loaded(parsed), errors |-> PyDict(<<>>)]
      [] sch.load = "invalid" ->
            IF mm2 /\ ~sch.strict
            THEN [exc |-> NoExc, data |-> PyDict(<<>>), errors |-> ValidationMessages]
            ELSE [exc |-> ValidationError, data |-> None, errors |-> None]
      [] OTHER ->
            [exc |-> OtherError, data |-> None, errors |-> None]

-----------------------------------------------------------------------------
(* Marshmallow.process_resource, middleware.py lines 317-416.  The result  *)
(* is the new context and stream, what the call did (transport reads,      *)
(* get_stashed_content calls and the values they returned, _get_schema     *)
(* calls, sch.load calls, the bodies handed to loads) and the exception    *)
(* raised.                                                                 *)

Untouched(ctx, s) ==
    [context |-> ctx, stream |-> s, nreads |-> 0, ncalls |-> 0, values |-> <<>>,
     nlookups |-> 0, nloads |-> 0, bodies |-> <<>>, exc |-> NoExc]

\* the state after get_stashed_content returned `got` on a decoding path
Stashed(got) ==
    [context |-> got.context, stream |-> got.stream, nreads |-> got.nreads,
     ncalls |-> 1, values |-> <<got.value>>, nlookups |-> 1, nloads |-> 0,
     bodies |-> <<got.value>>, exc |-> NoExc]

\* raise HTTPUnprocessableEntity(description=self._json.dumps(...)): the
\* exception of dumps when it raises
Unprocessable(d) ==
    IF d.exc # NoExc THEN d.exc ELSE HTTPError("HTTPUnprocessableEntity", d.value)

\* lines 381-402: the outcome ld of sch.load
StoreLoaded(inst, st, ld, mm2) ==
    IF mm2
    THEN \* lines 382-387: nothing raised by load is caught
         IF ld.exc # NoExc THEN [st EXCEPT !.exc = ld.exc]
         ELSE IF ~Falsy(ld.errors)
         THEN [st EXCEPT !.exc = Unprocessable(JsonDumps(ld.errors))]
         ELSE [st EXCEPT !.context[inst.req_key] = ld.data]
    ELSE \* lines 391-400
         IF ld.exc.type = "ValidationError"
         THEN [st EXCEPT !.exc = Unprocessable(JsonDumps(ld.exc.detail))]
         ELSE IF ld.exc # NoExc
         THEN [st EXCEPT !.exc =
                  Unprocessable(JsonDumps(PyDict(<< <<"error", ld.exc>> >>)))]
         ELSE [st EXCEPT !.context[inst.req_key] = ld.data]

\* a mutant: a body that is not UTF-8 is passed on to the schema
LoadParsedUnchecked(inst, sch, mm2, st, parsed) ==
    IF parsed.exc.type = "JSONDecodeError"
    THEN [st EXCEPT !.exc = HTTPError("HTTPBadRequest",
                                      PyStr("Request must be valid JSON"))]
    ELSE StoreLoaded(inst, [st EXCEPT !.nloads = 1],
                     SchemaLoad(sch, parsed.value, mm2), mm2)

\* lines 375-402: the outcome parsed of json_module.loads
LoadParsed(inst, sch, mm2, st, parsed) ==
    IF parsed.exc.type = "UnicodeDecodeError"
    THEN [st EXCEPT !.exc = HTTPError("HTTPBadRequest",
                                      PyStr("Body was not encoded as UTF-8"))]
    ELSE IF parsed.exc.type = "JSONDecodeError"
    THEN [st EXCEPT !.exc = HTTPError("HTTPBadRequest",
                                      PyStr("Request must be valid JSON"))]
    ELSE StoreLoaded(inst, [st EXCEPT !.nloads = 1],
                     SchemaLoad(sch, parsed.value, mm2), mm2)

LoadStashed(inst, sch, mm2, got) ==
    LoadParsed(inst, sch, mm2, Stashed(got), JsonLoads(got.value))

\* lines 373-402: the schema path, after the isinstance check
LoadWithSchema(inst, ctx, s, sch, mm2) ==
    LoadStashed(inst, sch, mm2, get_stashed_content(ctx, s))

\* lines 407-416: the outcome parsed of json_module.loads
StoreParsed(inst, st, parsed) ==
    IF parsed.exc # NoExc
    THEN [st EXCEPT !.exc = HTTPError("HTTPBadRequest",
                                      PyStr("Could not decode the request body"))]
    ELSE [st EXCEPT !.context[inst.req_key] = parsed.value]

LoadGenericStashed(inst, got) == StoreParsed(inst, Stashed(got), JsonLoads(got.value))

\* lines 404-416: no schema, force_json
LoadGeneric(inst, ctx, s) == LoadGenericStashed(inst, get_stashed_content(ctx, s))

NotInstantiated ==
    PyExc("TypeError", PyStr("must be instantiated Marshmallow schemas"))

\* a mutant: the body is decoded whatever force_json says
Deserialize_forced(inst, ctx, s, sch, mm2) ==
    IF sch # None
    THEN IF ~IsSchemaInstance(sch)
         THEN [Untouched(ctx, s) EXCEPT !.nlookups = 1, !.exc = NotInstantiated]
         ELSE LoadWithSchema(inst, ctx, s, sch, mm2)
    ELSE LoadGeneric(inst, ctx, s)

\* a mutant: the isinstance check is made after the body was read and decoded
Deserialize_latecheck(inst, ctx, s, sch, mm2) ==
    IF sch # None
    THEN IF ~IsSchemaInstance(sch)
         THEN [LoadGeneric(inst, ctx, s) EXCEPT !.exc = NotInstantiated]
         ELSE LoadWithSchema(inst, ctx, s, sch, mm2)
    ELSE IF inst.force_json THEN LoadGeneric(inst, ctx, s)
    ELSE [Untouched(ctx, s) EXCEPT !.nlookups = 1]

\* lines 366-416: the schema sch that _get_schema returned
Deserialize(inst, ctx, s, sch, mm2) ==
    IF sch # None
    THEN IF ~IsSchemaInstance(sch)
         THEN [Untouched(ctx, s) EXCEPT !.nlookups = 1, !.exc = NotInstantiated]
         ELSE LoadWithSchema(inst, ctx, s, sch, mm2)
    ELSE IF inst.force_json THEN LoadGeneric(inst, ctx, s)
    ELSE [Untouched(ctx, s) EXCEPT !.nlookups = 1]

\* a mutant: the declared length is not looked at
Marshmallow_process_resource_anylength(inst, r, ctx, s, res, mm2) ==
    IF /\ ~inst.handle_unexpected_content_types
       /\ ~content_is_expected_type(inst.expected_content_type, r.content_type)
    THEN Untouched(ctx, s)
    ELSE Deserialize(inst, ctx, s, get_schema(res, r.method, REQUEST), mm2)

Marshmallow_process_resource(inst, r, ctx, s, res, mm2) ==
    IF NoContentLength(r) THEN Untouched(ctx, s)
    ELSE IF /\ ~inst.handle_unexpected_content_types
            /\ ~content_is_expected_type(inst.expected_content_type, r.content_type)
    THEN Untouched(ctx, s)
    ELSE Deserialize(inst, ctx, s, get_schema(res, r.method, REQUEST), mm2)

-----------------------------------------------------------------------------
(* Marshmallow.process_response, middleware.py lines 418-502: the new      *)
(* resp.body, the _get_schema calls made and the exception raised.         *)

\* str(exc)
StrOf(exc) == IF exc.detail.k = "str" THEN exc.detail ELSE PyStr(exc.type)

\* what a valid dump serializes: the schema maps the value to its external
\* form, here by filing it under the key "foo"
Dumped(value) == PyDict(<< <<"foo", value>> >>)

DumpsResult(d) == [exc |-> d.exc, data |-> d.value, errors |-> PyDict(<<>>)]

\* sch.dumps(value): [exc, data, errors], with the conventions of SchemaLoad;
\* a value the schema cannot serialize makes it raise
SchemaDumps(sch, value, mm2) ==
    CASE sch.dump = "ok" -> DumpsResult(JsonDumps(Dumped(value)))
      [] sch.dump = "invalid" ->
            IF mm2 /\ ~sch.strict
            THEN [exc |-> NoExc, data |-> PyStr("{}"), errors |-> ValidationMessages]
            ELSE [exc |-> ValidationError, data |-> None, errors |-> None]
      [] OTHER ->
            [exc |-> OtherError, data |-> None, errors |-> None]

ServerError(description) == HTTPError("HTTPInternalServerError", description)

\* raise HTTPInternalServerError(description=self._json.dumps(...)): the
\* exception of dumps when it raises
Unserializable(d) == IF d.exc # NoExc THEN d.exc ELSE ServerError(d.value)

\* lines 461-489: the outcome dp of sch.dumps
StoreDumped(body, dp, mm2) ==
    IF mm2
    THEN IF dp.exc # NoExc THEN [body |-> body, nlookups |-> 1, exc |-> dp.exc]
         ELSE IF ~Falsy(dp.errors)
         THEN [body |-> body, nlookups |-> 1,
               exc |-> Unserializable(JsonDumps(dp.errors))]
         ELSE [body |-> dp.data, nlookups |-> 1, exc |-> NoExc]
    ELSE IF dp.exc.type = "ValidationError"
         THEN [body |-> body, nlookups |-> 1,
               exc |-> Unserializable(JsonDumps(dp.exc.detail))]
         ELSE IF dp.exc # NoExc
         THEN [body |-> body, nlookups |-> 1,
               exc |-> Unserializable(
                           JsonDumps(PyDict(<< <<"error", StrOf(dp.exc)>> >>)))]
         ELSE [body |-> dp.data, nlookups |-> 1, exc |-> NoExc]

GenericServerError ==
    ServerError(PyStr("The server attempted to serialize an object that cannot be serialized. This is likely a server-side bug."))

\* lines 492-502: the outcome d of json_module.dumps
StoreEncoded(body, d) ==
    IF d.exc.type = "TypeError"
    THEN [body |-> body, nlookups |-> 1, exc |-> GenericServerError]
    ELSE IF d.exc # NoExc
    THEN \* another exception of dumps is not caught: line 493 assigns nothing
         [body |-> body, nlookups |-> 1, exc |-> d.exc]
    ELSE [body |-> d.value, nlookups |-> 1, exc |-> NoExc]

\* a mutant: the value is encoded whatever force_json says
Serialize_forced(inst, ctx, body, sch, mm2) ==
    IF sch # None
    THEN IF ~IsSchemaInstance(sch)
         THEN [body |-> body, nlookups |-> 1, exc |-> NotInstantiated]
         ELSE StoreDumped(body, SchemaDumps(sch, ctx[inst.resp_key], mm2), mm2)
    ELSE StoreEncoded(body, JsonDumps(ctx[inst.resp_key]))

\* lines 454-502: the schema sch that _get_schema returned
Serialize(inst, ctx, body, sch, mm2) ==
    IF sch # None
    THEN IF ~IsSchemaInstance(sch)
         THEN [body |-> body, nlookups |-> 1, exc |-> NotInstantiated]
         ELSE StoreDumped(body, SchemaDumps(sch, ctx[inst.resp_key], mm2), mm2)
    ELSE IF inst.force_json THEN StoreEncoded(body, JsonDumps(ctx[inst.resp_key]))
    ELSE [body |-> body, nlookups |-> 1, exc |-> NoExc]

\* a mutant: nothing is serialized when the responder failed
Marshmallow_process_response_onsuccess(inst, r, ctx, body, res, succeeded, mm2) ==
    IF ctx[inst.resp_key] = Absent \/ succeeded = FALSE
    THEN [body |-> body, nlookups |-> 0, exc |-> NoExc]
    ELSE Serialize(inst, ctx, body, get_schema(res, r.method, RESPONSE), mm2)

Marshmallow_process_response(inst, r, ctx, body, res, succeeded, mm2) ==
    IF ctx[inst.resp_key] = Absent
    THEN [body |-> body, nlookups |-> 0, exc |-> NoExc]
    ELSE Serialize(inst, ctx, body, get_schema(res, r.method, RESPONSE), mm2)

-----------------------------------------------------------------------------
(* The inputs of one request.                                              *)

Keys == {"json", "result", "content"}
EmptyContext == [key \in Keys |-> Absent]

DefaultEnforcer == [methods |-> JSON_CONTENT_REQUIRED_METHODS]

\* the application installs the Marshmallow middleware after the guards,
\* with or without the EmptyRequestDropper
Pipelines ==
    {<<"JSONEnforcer", "EmptyRequestDropper", "Marshmallow">>,
     <<"JSONEnforcer", "Marshmallow">>}

Marshmallows ==
    [req_key : {"json", "content"},
     resp_key : {"result", "json"},
     force_json : BOOLEAN,
     expected_content_type : {JSON_CONTENT_TYPE, PyText(<<"text", "/", "csv">>)},
     handle_unexpected_content_types : BOOLEAN]

ContentTypes ==
    {None,
     JSON_CONTENT_TYPE,
     PyText(<<"application", "/", "json", ";", "charset", "=", "utf-8">>),
     PyText(<<"text", "/", "csv">>),
     PyText(<<"json">>)}

\* request bodies of the pipeline: none, two JSON documents, a truncated
\* document and a byte that is not UTF-8
PipelineBodies == {<<>>, <<"1">>, <<"[", "1", "]">>, <<"[">>, <<"xFF">>}

\* the declared length and what the bounded stream will hand out: nothing
\* when no length or a length of 0 is declared
LengthsAndBodies ==
    {<<None, <<>>>>, <<PyInt(0), <<>>>>} \cup {<<PyInt(5), b>> : b \in PipelineBodies}

Requests ==
    [method : {GET, POST},
     content_type : ContentTypes,
     content_length : {lb[1] : lb \in LengthsAndBodies},
     client_accepts_json : BOOLEAN]

GoodSchema == SchemaObject(FALSE, "ok", "ok")
FailingSchemas ==
    {SchemaObject(strict, "invalid", "invalid") : strict \in BOOLEAN}
        \cup {SchemaObject(FALSE, "raises", "raises")}

PipelineResources ==
    {<<>>}
    \cup {[n \in {SCHEMA} |-> sch] : sch \in {GoodSchema, SchemaClass} \cup FailingSchemas}
    \cup {[n \in {SCHEMA, Lower(GET) \o Underscore \o REQUEST \o Underscore \o SCHEMA} |->
               IF n = SCHEMA THEN SchemaClass ELSE GoodSchema]}

\* what the responder leaves under resp_key
HandlerResults == {PyDict(<< <<"a", PyInt(1)>> >>), PySet, PyCircular}

\* what the responder leaves in resp.body: nothing, or a body of its own
ResponderBodies == {None, PyStr("old")}

\* the state of a request no stage has run on
Fresh ==
    /\ stream = sent
    /\ context = EmptyContext
    /\ resp_body = None
    /\ raised = NoExc
    /\ stage = "none"
    /\ prev = [context |-> EmptyContext, body |-> None, reads |-> 0]
    /\ reads = 0
    /\ calls = 0
    /\ returned = <<>>
    /\ lookups = 0
    /\ loads = 0
    /\ decoded = <<>>
    /\ req_succeeded = None

Snapshot == [context |-> context, body |-> resp_body, reads |-> reads]

-----------------------------------------------------------------------------
(* The request pipeline: JSONEnforcer, EmptyRequestDropper and the         *)
(* Marshmallow middleware around the responder.  A stage that raises ends  *)
(* the request.                                                            *)

Init ==
    /\ pc = "enforce"
    /\ middleware \in Pipelines
    /\ enforcer = DefaultEnforcer
    /\ self \in Marshmallows
    /\ MARSHMALLOW_2 \in BOOLEAN
    /\ req \in Requests
    /\ sent \in {lb[2] : lb \in {x \in LengthsAndBodies : x[1] = req.content_length}}
    /\ resource \in PipelineResources
    /\ arg = None
    /\ Fresh

\* the stage that follows JSONEnforcer in the installed pipeline
AfterEnforcer ==
    IF InTuple("EmptyRequestDropper", middleware) THEN "drop" ELSE "resource"

EnforceStep(exc) ==
    /\ raised' = exc
    /\ pc' = IF exc = NoExc THEN AfterEnforcer ELSE "done"

Enforce ==
    /\ pc = "enforce"
    /\ EnforceStep(JSONEnforcer_process_request(enforcer, req))
    /\ stage' = "enforce"
    /\ prev' = Snapshot
    /\ UNCHANGED <<inputs, stream, context, resp_body, reads, calls, returned,
                   lookups, loads, decoded, req_succeeded, arg>>

DropStep(r) ==
    /\ context' = r.context
    /\ stream' = r.stream
    /\ reads' = reads + r.nreads
    /\ calls' = calls + r.ncalls
    /\ returned' = returned \o r.values
    /\ raised' = r.exc
    /\ pc' = IF r.exc = NoExc THEN "resource" ELSE "done"

Drop ==
    /\ pc = "drop"
    /\ DropStep(EmptyRequestDropper_process_request(req, context, stream))
    /\ stage' = "drop"
    /\ prev' = Snapshot
    /\ UNCHANGED <<inputs, resp_body, lookups, loads, decoded, req_succeeded, arg>>

ResourceStep(r) ==
    /\ context' = r.context
    /\ stream' = r.stream
    /\ reads' = reads + r.nreads
    /\ calls' = calls + r.ncalls
    /\ returned' = returned \o r.values
    /\ lookups' = lookups + r.nlookups
    /\ loads' = loads + r.nloads
    /\ decoded' = decoded \o r.bodies
    /\ raised' = r.exc
    /\ pc' = IF r.exc = NoExc THEN "responder" ELSE "done"

ProcessResource ==
    /\ pc = "resource"
    /\ ResourceStep(Marshmallow_process_resource(self, req, context, stream,
                                                 resource, MARSHMALLOW_2))
    /\ stage' = "resource"
    /\ prev' = Snapshot
    /\ UNCHANGED <<inputs, resp_body, req_succeeded, arg>>

\* the responder (application code): it succeeds or fails, may leave a
\* result under resp_key and may write resp.body itself
Responder ==
    /\ pc = "responder"
    /\ req_succeeded' \in BOOLEAN
    /\ resp_body' \in ResponderBodies
    /\ context' \in {context} \cup
                    {[context EXCEPT ![self.resp_key] = v] : v \in HandlerResults}
    /\ pc' = "response"
    /\ stage' = "responder"
    /\ prev' = Snapshot
    /\ UNCHANGED <<inputs, stream, raised, reads, calls, returned,
                   lookups, loads, decoded, arg>>

ResponseStep(r) ==
    /\ resp_body' = r.body
    /\ lookups' = lookups + r.nlookups
    /\ raised' = r.exc
    /\ pc' = "done"

ProcessResponse ==
    /\ pc = "response"
    /\ ResponseStep(Marshmallow_process_response(self, req, context, resp_body,
                                                 resource, req_succeeded,
                                                 MARSHMALLOW_2))
    /\ stage' = "response"
    /\ prev' = Snapshot
    /\ UNCHANGED <<inputs, stream, context, reads, calls, returned, loads, decoded,
                   req_succeeded, arg>>

Next == Enforce \/ Drop \/ ProcessResource \/ Responder \/ ProcessResponse

Spec == Init /\ [][Next]_vars

-----------------------------------------------------------------------------
(* The body cache on its own: any number of get_stashed_content calls on   *)
(* one request, for every body up to MaxLen bytes.                         *)

DefaultMarshmallow ==
    [req_key |-> "json", resp_key |-> "result", force_json |-> TRUE,
     expected_content_type |-> JSON_CONTENT_TYPE,
     handle_unexpected_content_types |-> FALSE]

InitStash ==
    /\ pc = "stash"
    /\ middleware = <<>>
    /\ enforcer = DefaultEnforcer
    /\ self = DefaultMarshmallow
    /\ MARSHMALLOW_2 = FALSE
    /\ sent \in AllBodies
    /\ req = [method |-> POST, content_type |-> JSON_CONTENT_TYPE,
              content_length |-> PyInt(Len(sent)), client_accepts_json |-> TRUE]
    /\ resource = <<>>
    /\ arg = None
    /\ Fresh

StashStep(got) ==
    /\ context' = got.context
    /\ stream' = got.stream
    /\ reads' = reads + got.nreads
    /\ returned' = Append(returned, got.value)

Stash ==
    /\ pc = "stash"
    /\ calls < MaxCalls
    /\ StashStep(get_stashed_content(context, stream))
    /\ calls' = calls + 1
    /\ stage' = "stash"
    /\ prev' = Snapshot
    /\ UNCHANGED <<pc, inputs, resp_body, raised, lookups, loads, decoded,
                   req_succeeded, arg>>

NextStash == Stash

SpecStash == InitStash /\ [][NextStash]_vars

-----------------------------------------------------------------------------
(* The schema lookup on its own: _get_schema on every resource that sets   *)
(* some of five attributes, for methods in several letter cases.           *)

GET_REQUEST_SCHEMA == Lower(GET) \o Underscore \o REQUEST \o Underscore \o SCHEMA
GET_RESPONSE_SCHEMA == Lower(GET) \o Underscore \o RESPONSE \o Underscore \o SCHEMA
GET_SCHEMA == Lower(GET) \o Underscore \o SCHEMA
POST_SCHEMA == Lower(POST) \o Underscore \o SCHEMA

AttrNames == <<GET_REQUEST_SCHEMA, GET_RESPONSE_SCHEMA, GET_SCHEMA, POST_SCHEMA, SCHEMA>>

\* a schema object per attribute, told apart by its behaviour; an attribute
\* may also be set to None
AttrValue(i) ==
    <<SchemaObject(FALSE, "ok", "ok"), SchemaObject(TRUE, "ok", "ok"),
      SchemaObject(FALSE, "invalid", "ok"), SchemaObject(TRUE, "invalid", "ok"),
      SchemaObject(FALSE, "raises", "ok")>>[i]

LookupResources ==
    {[n \in {AttrNames[i] : i \in present} |->
         IF n = AttrNames[1] /\ 1 \in nones THEN None
         ELSE AttrValue(CHOOSE i \in 1..Len(AttrNames) : AttrNames[i] = n)] :
        present \in SUBSET (1..Len(AttrNames)), nones \in SUBSET {1}}

LookupMethods == {GET, <<"g", "e", "t">>, <<"G", "e", "t">>, POST}

InitLookup ==
    /\ pc = "lookup"
    /\ middleware = <<>>
    /\ enforcer = DefaultEnforcer
    /\ self = DefaultMarshmallow
    /\ MARSHMALLOW_2 = FALSE
    /\ sent = <<>>
    /\ req = [method |-> GET, content_type |-> None, content_length |-> None,
              client_accepts_json |-> TRUE]
    /\ resource \in LookupResources
    /\ arg \in [method : LookupMethods, msg_type : {REQUEST, RESPONSE},
                result : {Absent}]
    /\ Fresh

Lookup ==
    /\ pc = "lookup"
    /\ arg' = [arg EXCEPT !.result = get_schema(resource, arg.method, arg.msg_type)]
    /\ lookups' = lookups + 1
    /\ pc' = "looked"
    /\ stage' = "lookup"
    /\ prev' = Snapshot
    /\ UNCHANGED <<inputs, stream, context, resp_body, raised, reads, calls,
                   returned, loads, decoded, req_succeeded>>

NextLookup == Lookup

SpecLookup == InitLookup /\ [][NextLookup]_vars

-----------------------------------------------------------------------------
(* JSONEnforcer on its own: every required_methods it may be constructed   *)
(* with, every method and content type.                                    *)

Enforcers ==
    {[methods |-> m] : m \in {JSON_CONTENT_REQUIRED_METHODS, <<GET>>, <<>>,
                              <<POST, DELETE>>}}

EnforcerRequests ==
    [method : {GET, POST, PUT, PATCH, DELETE},
     content_type : ContentTypes,
     content_length : {None},
     client_accepts_json : BOOLEAN]

InitEnforcer ==
    /\ pc = "enforce"
    /\ middleware = <<"JSONEnforcer">>
    /\ enforcer \in Enforcers
    /\ self = DefaultMarshmallow
    /\ MARSHMALLOW_2 = FALSE
    /\ sent = <<>>
    /\ req \in EnforcerRequests
    /\ resource = <<>>
    /\ arg = None
    /\ Fresh

NextEnforcer == Enforce

SpecEnforcer == InitEnforcer /\ [][NextEnforcer]_vars

-----------------------------------------------------------------------------
(* Properties of the body cache and of the guards.                         *)

\* C1: however many times get_stashed_content is called on one request, the
\* transport stream is read at most once, by the first call, and every call
\* returns the bytes that read produced, also when they are empty.
C1_ReadAtMostOnce ==
    /\ reads <= 1
    /\ calls >= 1 => reads = 1
    /\ Len(returned) = calls
    /\ \A i \in 1..Len(returned) : returned[i] = PyBytes(sent)

\* three calls were made on a request with an empty body
C1_Witness == pc = "stash" /\ calls >= 3 /\ sent = <<>> /\ reads = 1

\* C2: in a run of EmptyRequestDropper followed by process_resource, under
\* every configuration and resource, the transport stream is read at most
\* once in all, and the bytes process_resource decodes are the bytes the
\* dropper obtained, never the end-of-stream of a second read.
C2_PipelineReadsOnce ==
    /\ reads <= 1
    /\ \A i \in 1..Len(decoded) :
          /\ decoded[i] = PyBytes(sent)
          /\ \A j \in 1..Len(returned) : decoded[i] = returned[j]

\* the dropper read the body and process_resource decoded it from the cache
C2_Witness ==
    /\ InTuple("EmptyRequestDropper", middleware)
    /\ stage = "resource"
    /\ calls = 2
    /\ reads = 1
    /\ Len(decoded) = 1
    /\ decoded[1] = PyBytes(<<"[", "1", "]">>)

\* C3: when the declared content length is None or 0, neither
\* EmptyRequestDropper.process_request nor Marshmallow.process_resource
\* reads the transport stream, writes the request context or raises, and
\* process_resource looks up no schema.
C3_NoLengthNoAction ==
    NoContentLength(req) /\ stage \in {"drop", "resource"} =>
        /\ reads = 0
        /\ calls = 0
        /\ context = EmptyContext
        /\ raised = NoExc
        /\ lookups = 0

\* both stages ran on a request of declared length 0 whose resource has a schema
C3_Witness ==
    /\ stage = "resource"
    /\ req.content_length = PyInt(0)
    /\ InTuple("EmptyRequestDropper", middleware)
    /\ resource = [n \in {SCHEMA} |-> GoodSchema]
    /\ self.handle_unexpected_content_types

\* C4: for a request with a nonzero declared content length,
\* EmptyRequestDropper raises HTTPBadRequest (400) exactly when the body
\* obtained from get_stashed_content is empty, and raises nothing else.
C4_EmptyBodyRejected ==
    stage = "drop" /\ ~NoContentLength(req) =>
        /\ Len(returned) = 1
        /\ Status(raised) = 400 <=> returned[1] = PyBytes(<<>>)
        /\ Status(raised) # 400 => raised = NoExc

\* the dropper rejected a request that declared a length and sent nothing
C4_Witness ==
    /\ stage = "drop"
    /\ req.content_length = PyInt(5)
    /\ sent = <<>>
    /\ Status(raised) = 400

-----------------------------------------------------------------------------
(* Properties of the schema lookup.                                        *)

\* an attribute is set when the resource has it with a value other than None
IsSet(res, name) == name \in DOMAIN res /\ res[name] # None

\* the lower-case spelling of the methods looked up
LowerSpelling(method) ==
    IF method \in {GET, <<"g", "e", "t">>, <<"G", "e", "t">>}
    THEN <<"g", "e", "t">> ELSE <<"p", "o", "s", "t">>

\* the attribute names of the three levels for a method and a direction
LevelNames(method, msg_type) ==
    <<LowerSpelling(method) \o <<"_">> \o msg_type \o <<"_">> \o SCHEMA,
      LowerSpelling(method) \o <<"_">> \o SCHEMA,
      SCHEMA>>

FirstSet(res, names) ==
    IF IsSet(res, names[1]) THEN res[names[1]]
    ELSE IF IsSet(res, names[2]) THEN res[names[2]]
    ELSE IF IsSet(res, names[3]) THEN res[names[3]]
    ELSE None

\* C5: for every resource, method (in any letter case) and direction,
\* _get_schema returns the value of the first attribute that is set among
\* {method}_{direction}_schema, {method}_schema and schema, the method
\* lower-cased; None when none is set; and never the value of an attribute
\* named for another method or the other direction.
C5_SchemaPrecedence ==
    pc = "looked" =>
        /\ arg.result = FirstSet(resource, LevelNames(arg.method, arg.msg_type))
        /\ \A i \in 1..Len(AttrNames) :
              /\ ~InTuple(AttrNames[i], LevelNames(arg.method, arg.msg_type))
              /\ IsSet(resource, AttrNames[i])
              => arg.result # resource[AttrNames[i]]

\* a mixed-case GET request lookup on a resource that sets get_response_schema,
\* get_schema and schema but not get_request_schema returned get_schema
C5_Witness ==
    /\ pc = "looked"
    /\ arg.method = <<"G", "e", "t">>
    /\ arg.msg_type = REQUEST
    /\ DOMAIN resource = {GET_RESPONSE_SCHEMA, GET_SCHEMA, SCHEMA}
    /\ arg.result = resource[GET_SCHEMA]

-----------------------------------------------------------------------------
(* Properties of JSONEnforcer.                                             *)

\* the declared content type is absent or does not contain "application/json"
LacksJson(content_type) ==
    content_type = None \/ ~Contains(content_type.v, <<"application", "/", "json">>)

\* C6: for a request that accepts JSON, JSONEnforcer.process_request raises
\* HTTPUnsupportedMediaType (415) exactly when the request method is in the
\* required_methods the enforcer was constructed with and the content type
\* is absent or does not contain "application/json"; a method outside the
\* configured set is never rejected with 415.
C6_ConfiguredMethodsEnforced ==
    stage = "enforce" /\ req.client_accepts_json =>
        (Status(raised) = 415 <=>
            InTuple(req.method, enforcer.methods) /\ LacksJson(req.content_type))

\* C7: JSONEnforcer.process_request raises HTTPNotAcceptable (406), for
\* every method and content type, exactly when the request does not accept
\* JSON; this is also the outcome when the content-type check would fail too.
C7_NotAcceptable ==
    stage = "enforce" => (Status(raised) = 406 <=> ~req.client_accepts_json)

\* a POST without content type that does not accept JSON was answered 406
C7_Witness ==
    /\ stage = "enforce"
    /\ ~req.client_accepts_json
    /\ req.method = POST
    /\ req.content_type = None
    /\ Status(raised) = 406

-----------------------------------------------------------------------------
(* Properties of Marshmallow.process_resource.                             *)

\* the request content type names the media type of the expected one, with
\* or without parameters, or is absent
SameMediaType(content_type, expected) ==
    \/ content_type = None
    \/ /\ Len(content_type.v) >= Len(expected.v)
       /\ SubSeq(content_type.v, 1, Len(expected.v)) = expected.v
       /\ Len(content_type.v) > Len(expected.v) => content_type.v[Len(expected.v) + 1] = ";"

\* process_resource ran on a request with a nonzero declared length
Ran == stage = "resource" /\ ~NoContentLength(req)

\* the configuration and the content type make process_resource skip the request
SkipsContentType ==
    /\ ~self.handle_unexpected_content_types
    /\ ~SameMediaType(req.content_type, self.expected_content_type)

\* C8: for a request with a nonzero declared length, process_resource skips
\* decoding (no transport read, no schema lookup, no write to the context,
\* no error) exactly when handle_unexpected_content_types is false and the
\* content type does not match the expected one, an absent content type and
\* the expected type with extra parameters counting as matches.
C8_SkipUnexpectedContentType ==
    Ran =>
        /\ SkipsContentType =>
              /\ lookups = 0
              /\ reads = prev.reads
              /\ context = prev.context
              /\ raised = NoExc
        /\ ~SkipsContentType => lookups = 1

\* a text/csv request was skipped unread though its resource has a schema
C8_Witness ==
    /\ Ran
    /\ req.content_type = PyText(<<"text", "/", "csv">>)
    /\ self.expected_content_type = JSON_CONTENT_TYPE
    /\ resource = [n \in {SCHEMA} |-> GoodSchema]
    /\ sent = <<"1">>
    /\ stream = sent
    /\ lookups = 0
    /\ pc = "responder"

\* the schema process_resource resolves for the request
RequestSchema == get_schema(resource, req.method, REQUEST)

\* process_resource ran and attempted to decode the body: an instantiated
\* schema was resolved, or none and force_json is set
Attempted ==
    /\ Ran
    /\ ~SkipsContentType
    /\ \/ RequestSchema # None /\ IsSchemaInstance(RequestSchema)
       \/ RequestSchema = None /\ self.force_json

\* the body is not UTF-8 or not a JSON document
BadBody == JsonLoads(PyBytes(sent)).exc # NoExc

\* C9: whenever process_resource attempts decoding and the body is not
\* valid UTF-8 or not valid JSON, it raises HTTPBadRequest (400), and on the
\* schema path sch.load is not called.
C9_BadBodyRejected ==
    Attempted /\ BadBody => Status(raised) = 400 /\ loads = 0

\* a body that is not UTF-8 was rejected on the schema path
C9_Witness ==
    /\ Attempted
    /\ sent = <<"xFF">>
    /\ RequestSchema = GoodSchema
    /\ Status(raised) = 400
    /\ loads = 0
    /\ decoded = <<PyBytes(sent)>>

\* process_resource ran on the schema path with a JSON body that the
\* schema's load reports as invalid
LoadReportsErrors ==
    /\ Attempted
    /\ ~BadBody
    /\ RequestSchema # None
    /\ RequestSchema.load = "invalid"

\* C10: on the schema path, when the body is valid JSON and sch.load reports
\* validation errors, as a returned error collection or as a raised
\* ValidationError, process_resource raises HTTPUnprocessableEntity (422)
\* whose description is the JSON text of the schema's error detail.
C10_ValidationErrors422 ==
    LoadReportsErrors =>
        /\ Status(raised) = 422
        /\ raised.detail = PyStr("{\"int\": [\"Not a valid integer.\"]}")

\* process_resource ran on the schema path with a JSON body and the
\* schema's load raised an exception that is not a ValidationError
LoadRaisesOther ==
    /\ Attempted
    /\ ~BadBody
    /\ RequestSchema # None
    /\ RequestSchema.load = "raises"

\* C11: on the schema path, when sch.load raises an exception that is not a
\* ValidationError, process_resource raises HTTPUnprocessableEntity (422)
\* whose description carries str() of that exception; nothing else leaves
\* the load step.
C11_OtherLoadErrors422 ==
    LoadRaisesOther =>
        /\ Status(raised) = 422
        /\ raised.detail = PyStr("{\"error\": \"boom\"}")

-----------------------------------------------------------------------------
(* Properties of the isinstance check of both stages.                      *)

\* the schema process_response resolves for the request
ResponseSchema == get_schema(resource, req.method, RESPONSE)

\* process_resource ran past the content-type test and resolved a schema
\* that is not an instantiated Schema
RequestSchemaNotInstance ==
    /\ Ran
    /\ ~SkipsContentType
    /\ RequestSchema # None
    /\ ~IsSchemaInstance(RequestSchema)

\* process_response ran with resp_key set and resolved a schema that is not
\* an instantiated Schema
ResponseSchemaNotInstance ==
    /\ stage = "response"
    /\ context[self.resp_key] # Absent
    /\ ResponseSchema # None
    /\ ~IsSchemaInstance(ResponseSchema)

\* C12: when the schema resolved is not an instantiated Schema (a schema
\* class, say), process_resource (nonzero length, content type accepted) and
\* process_response (resp_key set) raise a TypeError that is no HTTP error,
\* without having read the transport, written the request context or
\* written resp.body.
C12_UninstantiatedSchemaTypeError ==
    RequestSchemaNotInstance \/ ResponseSchemaNotInstance =>
        /\ raised.type = "TypeError"
        /\ Status(raised) = 0
        /\ reads = prev.reads
        /\ context = prev.context
        /\ resp_body = prev.body

\* process_resource met a schema class on a request whose body nobody had
\* read, and left the body unread
C12_Witness ==
    /\ RequestSchemaNotInstance
    /\ RequestSchema = SchemaClass
    /\ ~InTuple("EmptyRequestDropper", middleware)
    /\ sent = <<"1">>
    /\ stream = sent
    /\ raised = NotInstantiated
    /\ context = EmptyContext

\* process_response met a schema class with a result to serialize
C12_ResponseReached ==
    /\ ResponseSchemaNotInstance
    /\ context[self.resp_key] \in HandlerResults
    /\ raised = NotInstantiated
    /\ resp_body = PyStr("old")

-----------------------------------------------------------------------------
(* Properties of Marshmallow.process_response.                             *)

\* process_response ran with resp_key set and resolved an instantiated schema
DumpAttempted ==
    /\ stage = "response"
    /\ context[self.resp_key] # Absent
    /\ ResponseSchema # None
    /\ IsSchemaInstance(ResponseSchema)

\* what the schema's dumps did with the value under resp_key
DumpOutcome == SchemaDumps(ResponseSchema, context[self.resp_key], MARSHMALLOW_2)

\* the JSON text of the detail dumps reported: the error collection, the
\* messages of a ValidationError, or str() of another exception
DumpErrorDetail ==
    IF DumpOutcome.exc = NoExc THEN JsonDumps(DumpOutcome.errors).value
    ELSE IF DumpOutcome.exc.type = "ValidationError"
    THEN JsonDumps(DumpOutcome.exc.detail).value
    ELSE JsonDumps(PyDict(<< <<"error", StrOf(DumpOutcome.exc)>> >>)).value

\* C13: when resp_key is set and an instantiated schema is resolved: if the
\* schema's dumps reports errors (an error collection returned, a
\* ValidationError raised, or any other exception raised), process_response
\* raises HTTPInternalServerError (500) whose description is the JSON text
\* of the detail, and resp.body is not written; otherwise resp.body is
\* exactly what dumps returned.
C13_DumpErrors500 ==
    DumpAttempted =>
        IF DumpOutcome.exc # NoExc \/ ~Falsy(DumpOutcome.errors)
        THEN /\ Status(raised) = 500
             /\ raised.detail = DumpErrorDetail
             /\ resp_body = prev.body
        ELSE /\ raised = NoExc
             /\ resp_body = DumpOutcome.data

\* process_response ran with resp_key set, resolved no schema and force_json
\* is set
EncodeAttempted ==
    /\ stage = "response"
    /\ context[self.resp_key] # Absent
    /\ ResponseSchema = None
    /\ self.force_json

\* C14: when resp_key is set, no schema is resolved and force_json is true:
\* a value the json module can encode makes resp.body its JSON text; every
\* value it cannot encode makes process_response raise
\* HTTPInternalServerError (500) with the fixed description, which says
\* nothing of the value or of the encoder's exception, and resp.body is not
\* written.
C14_GenericEncode ==
    EncodeAttempted =>
        IF JsonDumps(context[self.resp_key]).exc = NoExc
        THEN /\ raised = NoExc
             /\ resp_body = JsonDumps(context[self.resp_key]).value
        ELSE /\ raised = GenericServerError
             /\ resp_body = prev.body

\* process_response ran with nothing to serialize: resp_key is not in the
\* context, or it is but no schema is resolved and force_json is off
NothingToSerialize ==
    /\ stage = "response"
    /\ \/ context[self.resp_key] = Absent
       \/ ResponseSchema = None /\ ~self.force_json

\* C15: process_response leaves resp.body as it was, raises nothing and does
\* not modify the request context when resp_key is not in the context,
\* whatever schemas the resource defines, and when resp_key is set but no
\* schema is resolved and force_json is false.
C15_ResponseNoAction ==
    NothingToSerialize =>
        /\ resp_body = prev.body
        /\ raised = NoExc
        /\ context = prev.context

\* a result that cannot be encoded was left alone: no schema, force_json off
C15_Witness ==
    /\ stage = "response"
    /\ context[self.resp_key] = PySet
    /\ ResponseSchema = None
    /\ ~self.force_json
    /\ resp_body = PyStr("old")
    /\ raised = NoExc

\* without a result, a resource whose schema is a schema class raised nothing
C15_AbsentReached ==
    /\ stage = "response"
    /\ context[self.resp_key] = Absent
    /\ ResponseSchema = SchemaClass
    /\ resp_body = PyStr("old")
    /\ raised = NoExc

-----------------------------------------------------------------------------
(* Properties of what process_resource leaves in the request context.      *)

\* process_resource ran, resolved no schema, and force_json is off
NoSchemaNoFallback ==
    /\ stage = "resource"
    /\ RequestSchema = None
    /\ ~self.force_json

\* C16: when process_resource resolves no schema and force_json is false it
\* does nothing, whatever the body: the transport stream is not read,
\* nothing is written to the request context (req_key stays unset, no raw
\* body is cached by it) and nothing is raised.
C16_NoSchemaNoFallback ==
    NoSchemaNoFallback =>
        /\ reads = prev.reads
        /\ context = prev.context
        /\ raised = NoExc
        /\ loads = 0
        /\ decoded = <<>>
        /\ ~InTuple("EmptyRequestDropper", middleware) =>
              /\ context = EmptyContext
              /\ stream = sent
              /\ calls = 0

\* a body that is not UTF-8 went by unread: the lookup found no schema
C16_Witness ==
    /\ NoSchemaNoFallback
    /\ Ran
    /\ ~SkipsContentType
    /\ ~InTuple("EmptyRequestDropper", middleware)
    /\ sent = <<"xFF">>
    /\ stream = sent
    /\ lookups = 1
    /\ context = EmptyContext
    /\ pc = "responder"

-----------------------------------------------------------------------------
(* Properties of the order of the stages.                                  *)

\* what process_response does to the request at hand when it is told the
\* responder's outcome was `succeeded`
ResponseFor(succeeded) ==
    Marshmallow_process_response(self, req, context, prev.body, resource,
                                 succeeded, MARSHMALLOW_2)

\* the response stage ran and did what it does for either outcome
SameForBothOutcomes ==
    stage = "response" =>
        /\ ResponseFor(TRUE) = ResponseFor(FALSE)
        /\ resp_body = ResponseFor(req_succeeded).body
        /\ raised = ResponseFor(req_succeeded).exc

\* C17: once the guards and process_resource have completed,
\* process_response runs exactly once after the responder, whether the
\* responder succeeded or failed: it is the stage that follows the responder
\* for either outcome, the request is over once it has run, and what
\* it does to resp.body and what it raises is the same for both values of
\* req_succeeded.
C17_ResponseRegardlessOfOutcome ==
    /\ pc = "response" <=> stage = "responder"
    /\ stage = "responder" => req_succeeded \in BOOLEAN
    /\ stage = "response" => pc = "done" /\ req_succeeded \in BOOLEAN
    /\ SameForBothOutcomes

\* process_response wrote resp.body after a responder that failed
C17_Witness ==
    /\ stage = "response"
    /\ req_succeeded = FALSE
    /\ context[self.resp_key] \in HandlerResults
    /\ prev.body = PyStr("old")
    /\ resp_body = PyStr("{\"a\": 1}")
    /\ raised = NoExc

-----------------------------------------------------------------------------
(* Properties of the cached raw body.                                      *)

\* C18: once the raw body is cached in req.context under CONTENT_KEY, no
\* later stage of the request changes or removes the entry: it is the bytes
\* read from the transport whenever it is set, and a stage that finds it set
\* leaves it as it was.  This is claimed for every configuration, every
\* choice of req_key and resp_key included.
C18_CachedBodyImmutable ==
    /\ context[CONTENT_KEY] # Absent => context[CONTENT_KEY] = PyBytes(sent)
    /\ prev.context[CONTENT_KEY] # Absent =>
          context[CONTENT_KEY] = prev.context[CONTENT_KEY]

\* what the decoding of process_resource stores under req_key when it
\* succeeds: the data sch.load returned on the schema path, the decoded JSON
\* value on the generic path
DecodedValue ==
    IF RequestSchema # None
    THEN SchemaLoad(RequestSchema, JsonLoads(PyBytes(sent)).value, MARSHMALLOW_2).data
    ELSE JsonLoads(PyBytes(sent)).value

\* C19: process_resource writes req_key only when it returns normally after
\* decoding: the value stored is what sch.load returned on the schema path
\* and the decoded JSON value on the generic path; whenever it raises (400,
\* 422, TypeError) or does not decode, req_key is left exactly as it was
\* before the call.
C19_ReqKeyWrittenOnSuccess ==
    stage = "resource" =>
        IF Attempted /\ raised = NoExc
        THEN context[self.req_key] = DecodedValue
        ELSE context[self.req_key] = prev.context[self.req_key]

-----------------------------------------------------------------------------
(* Properties of the negotiation errors in the pipeline.                   *)

\* the request does not accept JSON, or its method requires a JSON content
\* type it does not declare
NegotiationFails ==
    \/ ~req.client_accepts_json
    \/ /\ InTuple(req.method, JSON_CONTENT_REQUIRED_METHODS)
       /\ LacksJson(req.content_type)

\* nothing of the request body was read and the context holds nothing
BodyUntouched ==
    /\ reads = 0
    /\ calls = 0
    /\ stream = sent
    /\ context = EmptyContext

\* C20: negotiation errors are detected before any body read:
\* JSONEnforcer.process_request never reads the transport stream and never
\* writes the request context, whether it returns or raises 406 or 415, so a
\* request that ends with a negotiation error has a read count of zero and
\* an unchanged context, and a request failing negotiation is never read.
C20_NegotiationBeforeRead ==
    /\ stage = "enforce" => BodyUntouched
    /\ Status(raised) \in {406, 415} => stage = "enforce" /\ pc = "done" /\ BodyUntouched
    /\ NegotiationFails => BodyUntouched

\* a POST with a body and no content type ended with 415, the body unread
C20_Witness ==
    /\ stage = "enforce"
    /\ pc = "done"
    /\ Status(raised) = 415
    /\ req.method = POST
    /\ req.content_type = None
    /\ sent = <<"[", "1", "]">>
    /\ stream = sent
    /\ reads = 0

====
